---- MODULE Spec2Model ----
(***************************************************************************)
(* State-machine model of pong.py: the game loop of main() updating the    *)
(* ball, the player paddle, the AI paddle and the two scorekeepers, with   *)
(* key events delivered between loop iterations.                           *)
(*                                                                         *)
(* Python floats (positions, speeds, angles) are held as integers counting *)
(* thousandths: x = 1500 stands for 1.5, dir = 90000 for 90 degrees.       *)
(* Python's 0-based list and tuple indices are kept (hitbox[0..3],         *)
(* scores[0..1]).                                                          *)
(***************************************************************************)
EXTENDS Integers, Sequences, FiniteSets, TLC

\* Thousandths per unit: the resolution at which a float is held.
Scale == 1000

\* ---------------------------------------------------------------- constants
WIDTH == 600
HEIGHT == 600
RIGHT == (WIDTH \div 2) * Scale
LEFT == -RIGHT
TOP == (HEIGHT \div 2) * Scale
BOTTOM == -TOP

BALL_SIZE == 12
BALL_SPEED == 10
\* 0.25, in thousandths
BALL_SPEED_INCREASE == 250

PADDLE_WIDTH == 80
PADDLE_HEIGHT == 10
PADDLE_SPEED == 8
PADDLE_DIST_FROM_BORDER == 50
PADDLE_BOUNDARY == 5
TOP_PADDLE_Y == ((HEIGHT \div 2) - PADDLE_DIST_FROM_BORDER) * Scale
BOTTOM_PADDLE_Y == -TOP_PADDLE_Y

BOUNCE_SHARPNESS == 90
BOUNCE_RAND_FACTOR == 25

\* int(HEIGHT/1.8)
AI_VISIBILITY_RANGE == ((HEIGHT * 10) \div 18) * Scale
AI_PADDLE_SPEED == 5

\* ------------------------------------------------------------------- bounds
\* With the keyboard in use, the game loop stops taking ticks once this many
\* goals have been scored,
MaxGoals == 1
\* or once the ball has bounced this often off a paddle in one life.
MaxBounces == 1
\* The same two bounds for the game nobody touches the keyboard of.
MaxIdleGoals == 2
MaxIdleBounces == 2
\* The game loop stops taking ticks once the ball is this far above the top
\* edge or below the bottom edge of the window.
MaxEscape == 60
\* The AI paddle tracking a ball held still starts at an even x of at most
\* twice this many units, left or right of the centre.
MaxTrackStart == 130
\* The x of the ball held still: the ball falls straight (dir = 270) off a
\* player paddle at a multiple of its speed.
TrackBallXs == {-31 * PADDLE_SPEED, -PADDLE_SPEED, 0, 12 * PADDLE_SPEED,
                31 * PADDLE_SPEED}
\* The lateral offsets between paddle and ball tried for a bounce are the
\* multiples of one unit divided by this number.
OffsetsPerUnit == 4
\* randint(25, 155): the launch angles tried.
LaunchAngles == {25, 39, 90, 136, 155}
\* randint(-BOUNCE_RAND_FACTOR, BOUNCE_RAND_FACTOR): the jitters tried.
Jitters == {-BOUNCE_RAND_FACTOR, 0, BOUNCE_RAND_FACTOR}
\* randint(0, base_speed): the wander speeds tried.
WanderSpeeds == {0, 3, AI_PADDLE_SPEED}

\* ------------------------------------------------------------------ numbers
Abs(n) == IF n < 0 THEN -n ELSE n

Sgn(n) == IF n < 0 THEN -1 ELSE IF n > 0 THEN 1 ELSE 0

\* A quotient of fixed-point numbers, rounded toward zero.
Quot(a, b) == Sgn(a) * (Abs(a) \div b)

\* 10000 * sin(d degrees) for d = 0..90 (entry d + 1).
SinTable ==
  << 0, 175, 349, 523, 698, 872, 1045, 1219, 1392, 1564, 1736, 1908, 2079,
     2250, 2419, 2588, 2756, 2924, 3090, 3256, 3420, 3584, 3746, 3907, 4067, 4226,
     4384, 4540, 4695, 4848, 5000, 5150, 5299, 5446, 5592, 5736, 5878, 6018, 6157,
     6293, 6428, 6561, 6691, 6820, 6947, 7071, 7193, 7314, 7431, 7547, 7660, 7771,
     7880, 7986, 8090, 8192, 8290, 8387, 8480, 8572, 8660, 8746, 8829, 8910, 8988,
     9063, 9135, 9205, 9272, 9336, 9397, 9455, 9511, 9563, 9613, 9659, 9703, 9744,
     9781, 9816, 9848, 9877, 9903, 9925, 9945, 9962, 9976, 9986, 9994, 9998, 10000 >>

TrigScale == SinTable[91]

\* 10000 * sin of a whole number of degrees, any sign.
SinWhole(d) ==
  LET m == d % 360
  IN  IF m <= 90 THEN SinTable[m + 1]
      ELSE IF m <= 180 THEN SinTable[(180 - m) + 1]
      ELSE IF m <= 270 THEN -SinTable[(m - 180) + 1]
      ELSE -SinTable[(360 - m) + 1]

\* sin(radians(a)) for an angle a in thousandths of a degree, times 10000:
\* the table value, interpolated linearly between whole degrees.
sin(a) ==
  LET m == a % (360 * Scale)
      d == m \div Scale
      f == m % Scale
      s0 == SinWhole(d)
      s1 == SinWhole(d + 1)
  IN  IF f = 0 THEN s0 ELSE s0 + Quot((s1 - s0) * f, Scale)

\* cos(radians(a)), times 10000.
cos(a) == sin(90 * Scale - (a % (360 * Scale)))

\* ------------------------------------------------------------------ sprites
\* Sprite hitbox: [min_x, max_x, min_y, max_y] from centre and size.
Hitbox(x, y, width, height) ==
  [i \in 0..3 |->
     CASE i = 0 -> x - (width * Scale) \div 2
       [] i = 1 -> x + (width * Scale) \div 2
       [] i = 2 -> y - (height * Scale) \div 2
       [] i = 3 -> y + (height * Scale) \div 2]

\* Sprite.update_hitbox
update_hitbox(s) == [s EXCEPT !.hitbox = Hitbox(s.x, s.y, s.width, s.height)]

\* Sprite.update: refresh the hitbox and draw when changed is set.
Sprite_update(s) ==
  IF s.changed THEN [update_hitbox(s) EXCEPT !.changed = FALSE] ELSE s

\* Scorekeeper.__init__
Scorekeeper(x, y) ==
  [x |-> x, y |-> y, width |-> 0, height |-> 0,
   hitbox |-> Hitbox(x, y, 0, 0), changed |-> TRUE, score |-> 0]

\* Faulty variant of scored: a goal is worth two points.
scored_twice(s) == [s EXCEPT !.score = @ + 2, !.changed = TRUE]

\* Scorekeeper.scored
scored(s) == [s EXCEPT !.score = @ + 1, !.changed = TRUE]

\* ------------------------------------------------------------------ paddles
\* Paddle.__init__
Paddle(width, height, x, y, speed) ==
  [x |-> x, y |-> y, width |-> width, height |-> height,
   hitbox |-> Hitbox(x, y, width, height), changed |-> TRUE,
   shift |-> speed * Scale, moving_left |-> FALSE, moving_right |-> FALSE]

\* Paddle.left
left(p) ==
  IF p.hitbox[0] > -(WIDTH * Scale) \div 2 + PADDLE_BOUNDARY * Scale
  THEN [p EXCEPT !.x = @ - p.shift]
  ELSE p

\* Paddle.right
right(p) ==
  IF p.hitbox[1] < (WIDTH * Scale) \div 2 - PADDLE_BOUNDARY * Scale
  THEN [p EXCEPT !.x = @ + p.shift]
  ELSE p

start_left(p) == [p EXCEPT !.moving_left = TRUE]

start_right(p) == [p EXCEPT !.moving_right = TRUE]

stop_left(p) == [p EXCEPT !.moving_left = FALSE]

stop_right(p) == [p EXCEPT !.moving_right = FALSE]

\* Faulty variant of Paddle_move: "if" for "elif", so both moves can apply.
Paddle_move_both(p) ==
  LET l == IF p.moving_left THEN [left(p) EXCEPT !.changed = TRUE] ELSE p
  IN  IF l.moving_right THEN [right(l) EXCEPT !.changed = TRUE] ELSE l

\* Paddle.update, its first statement: move left, else move right.
Paddle_move(p) ==
  IF p.moving_left THEN [left(p) EXCEPT !.changed = TRUE]
  ELSE IF p.moving_right THEN [right(p) EXCEPT !.changed = TRUE]
  ELSE p

\* Paddle.update: move, then refresh the hitbox and draw when changed.
Paddle_update(p) ==
  LET m == Paddle_move(p)
  IN  [(IF m.changed THEN update_hitbox(m) ELSE m) EXCEPT !.changed = FALSE]

\* AIPaddle.__init__ (with the class attributes sees_ball, rand_dir_set)
AIPaddle(width, height, x, y, speed) ==
  [x |-> x, y |-> y, width |-> width, height |-> height,
   hitbox |-> Hitbox(x, y, width, height), changed |-> TRUE,
   shift |-> speed * Scale, moving_left |-> FALSE, moving_right |-> FALSE,
   base_speed |-> speed * Scale, sees_ball |-> TRUE, rand_dir_set |-> FALSE]

\* Faulty variant of set_dir: aligned means within half the base speed.
set_dir_narrow(p, b) ==
  IF 2 * Abs(p.x - b.x) < p.base_speed
  THEN [p EXCEPT !.shift = 0]
  ELSE IF p.x > b.x THEN stop_right(start_left(p))
  ELSE stop_left(start_right(p))

\* Faulty variant of set_dir: the aligned paddle keeps its speed.
set_dir_keeps_shift(p, b) ==
  IF 2 * Abs(p.x - b.x) < 3 * p.base_speed
  THEN p
  ELSE IF p.x > b.x THEN stop_right(start_left(p))
  ELSE stop_left(start_right(p))

\* AIPaddle.set_dir
set_dir(p, b) ==
  IF 2 * Abs(p.x - b.x) < 3 * p.base_speed
  THEN [p EXCEPT !.shift = 0]
  ELSE IF p.x > b.x THEN stop_right(start_left(p))
  ELSE stop_left(start_right(p))

\* Faulty variant of AIPaddle_rand_dir: the other intent is not cleared.
AIPaddle_rand_dir_no_stop(p, speed, coin) ==
  LET q == [p EXCEPT !.shift = speed * Scale]
  IN  IF coin = 1 THEN start_left(q) ELSE start_right(q)

\* AIPaddle.rand_dir, with the two random draws as parameters.
AIPaddle_rand_dir(p, speed, coin) ==
  LET q == [p EXCEPT !.shift = speed * Scale]
  IN  IF coin = 1 THEN stop_right(start_left(q))
      ELSE stop_left(start_right(q))

\* Faulty variant of AIPaddle_decide: the wander is never latched.
AIPaddle_decide_unlatched(p, b, speed, coin) ==
  LET q == [p EXCEPT !.sees_ball = Abs(p.y - b.y) < AI_VISIBILITY_RANGE]
  IN  IF q.sees_ball
      THEN [set_dir([q EXCEPT !.shift = q.base_speed], b)
              EXCEPT !.rand_dir_set = FALSE]
      ELSE AIPaddle_rand_dir(q, speed, coin)

\* AIPaddle.update, up to the choice of direction.
AIPaddle_decide(p, b, speed, coin) ==
  LET q == [p EXCEPT !.sees_ball = Abs(p.y - b.y) < AI_VISIBILITY_RANGE]
  IN  IF q.sees_ball
      THEN [set_dir([q EXCEPT !.shift = q.base_speed], b)
              EXCEPT !.rand_dir_set = FALSE]
      ELSE IF ~q.rand_dir_set
      THEN [AIPaddle_rand_dir(q, speed, coin) EXCEPT !.rand_dir_set = TRUE]
      ELSE q

\* AIPaddle.update, its own two moves (left and right, not exclusive).
AIPaddle_move(p) ==
  LET l == IF p.moving_left THEN [left(p) EXCEPT !.changed = TRUE] ELSE p
  IN  IF l.moving_right THEN [right(l) EXCEPT !.changed = TRUE] ELSE l

\* AIPaddle.update: decide, move, then Paddle.update (which moves again).
AIPaddle_update(p, b, speed, coin) ==
  Paddle_update(AIPaddle_move(AIPaddle_decide(p, b, speed, coin)))

\* --------------------------------------------------------------------- ball
\* Faulty variant of Ball_rand_dir: a quarter turn for the half turn.
Ball_rand_dir_quarter(b, angle, coin) ==
  [b EXCEPT !.dir = IF coin = 1 THEN (angle + 90) * Scale ELSE angle * Scale]

\* Ball.rand_dir, with the two random draws as parameters.
Ball_rand_dir(b, angle, coin) ==
  [b EXCEPT !.dir = IF coin = 1 THEN (angle + 180) * Scale ELSE angle * Scale]

\* Ball.__init__
Ball(size, speed, angle, coin) ==
  Ball_rand_dir(
    [x |-> 0, y |-> 0, width |-> size, height |-> size,
     hitbox |-> Hitbox(0, 0, size, size), changed |-> TRUE,
     dir |-> 0, base_speed |-> speed * Scale, shift |-> speed * Scale,
     bounces |-> 0],
    angle, coin)

\* Faulty variant of reset: the bounce count is kept.
reset_keeps_bounces(b, angle, coin) ==
  update_hitbox(
    [b EXCEPT !.x = 0, !.y = 0, !.shift = b.base_speed,
              !.dir = IF coin = 1 THEN (angle + 180) * Scale ELSE angle * Scale])

\* Ball.reset (one draw call, then the half-second sleep)
reset(b, angle, coin) ==
  update_hitbox(
    Ball_rand_dir(
      [b EXCEPT !.x = 0, !.y = 0, !.bounces = 0, !.shift = b.base_speed],
      angle, coin))

\* Faulty variant of reflect_x: the remainder is added, not subtracted.
reflect_x_sum(dir) == 180 * Scale + (dir % (360 * Scale))

\* Faulty variant of reflect_x: the reflection about the other axis.
reflect_x_as_y(dir) == 360 * Scale - (dir % (360 * Scale))

\* self.dir = 180 - (self.dir % 360)
reflect_x(dir) == 180 * Scale - (dir % (360 * Scale))

\* self.dir = 360 - (self.dir % 360)
reflect_y(dir) == 360 * Scale - (dir % (360 * Scale))

\* Faulty variant of check_boundary: a goal starts the other side's count
\* again from 0.
check_boundary_clears_other(b, sc, angle, coin) ==
  IF b.hitbox[0] <= LEFT \/ b.hitbox[1] >= RIGHT
  THEN [ball |-> [b EXCEPT !.dir = reflect_x(@)], scores |-> sc, resets |-> 0]
  ELSE IF b.hitbox[2] <= BOTTOM + 10 * Scale
  THEN [ball |-> reset([b EXCEPT !.dir = reflect_y(@)], angle, coin),
        scores |-> [sc EXCEPT ![0] = scored(@), ![1].score = 0], resets |-> 1]
  ELSE IF b.hitbox[3] >= TOP
  THEN [ball |-> reset([b EXCEPT !.dir = reflect_y(@)], angle, coin),
        scores |-> [sc EXCEPT ![1] = scored(@), ![0].score = 0], resets |-> 1]
  ELSE [ball |-> b, scores |-> sc, resets |-> 0]

\* Ball.check_collisions, the side walls and the two goals.
\* The result is the ball, the scores and the number of resets made.
check_boundary(b, sc, angle, coin) ==
  IF b.hitbox[0] <= LEFT \/ b.hitbox[1] >= RIGHT
  THEN [ball |-> [b EXCEPT !.dir = reflect_x(@)], scores |-> sc, resets |-> 0]
  ELSE IF b.hitbox[2] <= BOTTOM + 10 * Scale
  THEN [ball |-> reset([b EXCEPT !.dir = reflect_y(@)], angle, coin),
        scores |-> [sc EXCEPT ![0] = scored(@)], resets |-> 1]
  ELSE IF b.hitbox[3] >= TOP
  THEN [ball |-> reset([b EXCEPT !.dir = reflect_y(@)], angle, coin),
        scores |-> [sc EXCEPT ![1] = scored(@)], resets |-> 1]
  ELSE [ball |-> b, scores |-> sc, resets |-> 0]

\* The condition of the paddle loop of Ball.check_collisions.
hits(b, paddle) ==
  /\ b.hitbox[2] <= paddle.hitbox[3]
  /\ b.hitbox[3] >= paddle.hitbox[3]
  /\ b.hitbox[0] <= paddle.hitbox[1]
  /\ b.hitbox[1] >= paddle.hitbox[0]

\* Faulty variant of deflection: the offset is not halved.
deflection_unhalved(b, paddle) ==
  Quot(BOUNCE_SHARPNESS * (paddle.x - b.x), paddle.width \div 2)

\* BOUNCE_SHARPNESS * ((paddle.x-self.x)/2)/((paddle.width/2))
deflection(b, paddle) ==
  Quot(BOUNCE_SHARPNESS * Quot(paddle.x - b.x, 2), paddle.width \div 2)

\* Ball.check_collisions, the body of the paddle loop for one paddle.
check_paddle(b, paddle, jitter) ==
  IF hits(b, paddle)
  THEN [b EXCEPT !.bounces = @ + 1,
                 !.dir = IF paddle.y < 0
                         THEN 90 * Scale + deflection(b, paddle) + jitter * Scale
                         ELSE 270 * Scale - deflection(b, paddle) + jitter * Scale]
  ELSE b

\* Faulty variant of check_collisions: the paddle loop is one more branch
\* of the chain, skipped when a side wall reflected the ball.
check_collisions_exclusive(b, ps, sc, angle, coin, jitter) ==
  LET bd == check_boundary(b, sc, angle, coin)
  IN  IF b.hitbox[0] <= LEFT \/ b.hitbox[1] >= RIGHT
      THEN bd
      ELSE [bd EXCEPT !.ball = check_paddle(check_paddle(@, ps[0], jitter[0]),
                                            ps[1], jitter[1])]

\* Ball.check_collisions: walls and goals, then every paddle in list order.
check_collisions(b, ps, sc, angle, coin, jitter) ==
  LET bd == check_boundary(b, sc, angle, coin)
  IN  [bd EXCEPT !.ball = check_paddle(check_paddle(@, ps[0], jitter[0]),
                                       ps[1], jitter[1])]

\* Ball.update after check_collisions: one Euler step at speed s, redraw.
advance(b, s) ==
  Sprite_update([b EXCEPT !.shift = s,
                          !.x = @ + Quot(s * cos(b.dir), TrigScale),
                          !.y = @ + Quot(s * sin(b.dir), TrigScale),
                          !.changed = TRUE])

\* Faulty variant of speed_of: the increase per bounce is left out.
speed_of_base(b) == b.base_speed

\* self.base_speed + self.bounces * BALL_SPEED_INCREASE
speed_of(b) == b.base_speed + b.bounces * BALL_SPEED_INCREASE

\* Faulty variant of Ball_update: draw() is called once more after the step
\* (counted with the draw calls of the resets).
Ball_update_redraws(b, ps, sc, angle, coin, jitter) ==
  LET c == check_collisions(b, ps, sc, angle, coin, jitter)
  IN  [c EXCEPT !.ball = advance(@, speed_of(@)), !.resets = @ + 1]

\* Ball.update
Ball_update(b, ps, sc, angle, coin, jitter) ==
  LET c == check_collisions(b, ps, sc, angle, coin, jitter)
  IN  [c EXCEPT !.ball = advance(@, speed_of(@))]

\* -------------------------------------------------------------------- state
VARIABLES
  ball,       \* the Ball
  paddle1,    \* the PlayerPaddle (top)
  paddle2,    \* the AIPaddle (bottom)
  scores,     \* [score1, score2], indexed 0..1
  listening,  \* the key bindings of PlayerPaddle.key_listen are installed
  draws       \* draw calls made by each object in the last loop iteration

vars == <<ball, paddle1, paddle2, scores, listening, draws>>

\* main(): the list paddles, indexed 0..1.
paddles == [i \in 0..1 |-> IF i = 0 THEN paddle1 ELSE paddle2]

\* One draw call if the sprite is marked changed.
DrawIf(s) == IF s.changed THEN 1 ELSE 0

\* main(), up to the loop.
Init ==
  /\ \E angle \in LaunchAngles, coin \in 0..1 :
       ball = Ball(BALL_SIZE, BALL_SPEED, angle, coin)
  /\ paddle1 = Paddle(PADDLE_WIDTH, PADDLE_HEIGHT, 0, TOP_PADDLE_Y, PADDLE_SPEED)
  /\ paddle2 = AIPaddle(PADDLE_WIDTH, PADDLE_HEIGHT, 0, BOTTOM_PADDLE_Y,
                        AI_PADDLE_SPEED)
  /\ scores = [i \in 0..1 |->
                 Scorekeeper(-(WIDTH * Scale) \div 2 + 50 * Scale,
                             IF i = 0 THEN 100 * Scale ELSE -100 * Scale)]
  /\ listening = FALSE
  /\ draws = [ball |-> 0, paddle1 |-> 0, paddle2 |-> 0, score1 |-> 0, score2 |-> 0]

\* The random draws an update consumes: all of a set when the update makes
\* the draw, one fixed value when it does not.
Drawn(used, choices) ==
  IF used THEN choices ELSE {CHOOSE c \in choices : TRUE}

\* The loop of main() goes on (the model stops it at the bounds).
Playing(goals, bounces) ==
  /\ scores[0].score + scores[1].score < goals
  /\ ball.bounces < bounces
  /\ Abs(ball.y) <= TOP + MaxEscape * Scale

\* ------------------------------------------------------------------ actions
\* One iteration of the loop of main(): obj.update() for the ball, the player
\* paddle, the AI paddle and the two scorekeepers, in that order, then
\* update().  The loop runs on one thread, so the iteration is one step.
\* (\E v \in {e} names the value of e.)
Loop(goals, bounces) ==
  /\ Playing(goals, bounces)
  /\ \E goal \in {check_boundary(ball, scores, 90, 0).resets > 0} :
     \E angle \in Drawn(goal, LaunchAngles), coin \in Drawn(goal, 0..1) :
     \E bd \in {check_boundary(ball, scores, angle, coin).ball} :
     \E j0 \in Drawn(hits(bd, paddles[0]), Jitters),
        j1 \in Drawn(hits(bd, paddles[1]), Jitters) :
     \E u \in {Ball_update(ball, paddles, scores, angle, coin,
                           [i \in 0..1 |-> IF i = 0 THEN j0 ELSE j1])} :
     \E wander \in {/\ ~(Abs(paddle2.y - u.ball.y) < AI_VISIBILITY_RANGE)
                    /\ ~paddle2.rand_dir_set} :
     \E speed \in Drawn(wander, WanderSpeeds), toss \in Drawn(wander, 0..1) :
     \E d \in {AIPaddle_move(AIPaddle_decide(paddle2, u.ball, speed, toss))} :
       /\ ball' = u.ball
       /\ paddle1' = Paddle_update(paddle1)
       /\ paddle2' = AIPaddle_update(paddle2, u.ball, speed, toss)
       /\ scores' = [i \in 0..1 |-> Sprite_update(u.scores[i])]
       /\ draws' = [ball |-> u.resets + 1,
                    paddle1 |-> DrawIf(Paddle_move(paddle1)),
                    paddle2 |-> DrawIf(Paddle_move(d)),
                    score1 |-> DrawIf(u.scores[0]),
                    score2 |-> DrawIf(u.scores[1])]
  /\ listening' = TRUE

Tick == Loop(MaxGoals, MaxBounces)

IdleTick == Loop(MaxIdleGoals, MaxIdleBounces)

\* Key events reach the program in update(), between two loop iterations,
\* and only once key_listen has bound the handlers.
KeyEvent(handled) ==
  /\ listening
  /\ paddle1' = handled
  /\ UNCHANGED <<ball, paddle2, scores, listening, draws>>

\* onkeypress(self.start_left, self.left_button)
PressLeft == KeyEvent(start_left(paddle1))

\* onkeyrelease(self.stop_left, self.left_button)
ReleaseLeft == KeyEvent(stop_left(paddle1))

\* onkeypress(self.start_right, self.right_button)
PressRight == KeyEvent(start_right(paddle1))

\* onkeyrelease(self.stop_right, self.right_button)
ReleaseRight == KeyEvent(stop_right(paddle1))

Next ==
  \/ Tick
  \/ PressLeft
  \/ ReleaseLeft
  \/ PressRight
  \/ ReleaseRight

Spec == Init /\ [][Next]_vars

\* The same program with nobody at the keyboard.
SpecIdle == Init /\ [][IdleTick]_vars

\* The AI paddle alone, tracking a ball that is held where it is: the ball
\* in sight at height 0, moving straight down, and the paddle as earlier
\* ticks can have left it (an even x, one intent set, chasing the ball at
\* its base speed or wandering at a speed it drew).
InitTrack ==
  /\ \E bx \in TrackBallXs :
       ball = [Ball(BALL_SIZE, BALL_SPEED, 90, 1)
                 EXCEPT !.x = bx * Scale,
                        !.hitbox = Hitbox(bx * Scale, 0, BALL_SIZE, BALL_SIZE),
                        !.changed = FALSE]
  /\ \E k \in -MaxTrackStart..MaxTrackStart, goes_left \in BOOLEAN,
        wandering \in BOOLEAN :
     \E speed \in Drawn(wandering, WanderSpeeds) :
       paddle2 = [AIPaddle(PADDLE_WIDTH, PADDLE_HEIGHT, 2 * k * Scale,
                           BOTTOM_PADDLE_Y, AI_PADDLE_SPEED)
                    EXCEPT !.changed = FALSE,
                           !.moving_left = goes_left,
                           !.moving_right = ~goes_left,
                           !.shift = IF wandering THEN speed * Scale ELSE @,
                           !.sees_ball = ~wandering,
                           !.rand_dir_set = wandering]
  /\ paddle1 = [Paddle(PADDLE_WIDTH, PADDLE_HEIGHT, 0, TOP_PADDLE_Y,
                       PADDLE_SPEED) EXCEPT !.changed = FALSE]
  /\ scores = [i \in 0..1 |->
                 Sprite_update(
                   Scorekeeper(-(WIDTH * Scale) \div 2 + 50 * Scale,
                               IF i = 0 THEN 100 * Scale ELSE -100 * Scale))]
  /\ listening = TRUE
  /\ draws = [ball |-> 0, paddle1 |-> 0, paddle2 |-> 0, score1 |-> 0, score2 |-> 0]

\* AIPaddle.update with the ball in sight (no random draw is made).
TrackTick ==
  /\ Abs(paddle2.y - ball.y) < AI_VISIBILITY_RANGE
  /\ paddle2' = AIPaddle_update(paddle2, ball, 0, 0)
  /\ UNCHANGED <<ball, paddle1, scores, listening, draws>>

\* The loop of main() never stops: an update that is due is made.
SpecTrack == InitTrack /\ [][TrackTick]_vars /\ WF_vars(TrackTick)

\* A ball with its centre on the top edge of paddle p, offset units to the
\* left of the paddle's centre (to the right when offset is negative).
BallOnPaddle(p, offset) ==
  [Ball(BALL_SIZE, BALL_SPEED, 90, 0)
     EXCEPT !.x = p.x - offset,
            !.y = p.hitbox[3],
            !.hitbox = Hitbox(p.x - offset, p.hitbox[3], BALL_SIZE, BALL_SIZE)]

\* The lateral offsets tried: from a unit beyond the widest overlap on one
\* side (half the paddle plus half the ball) to a unit beyond it on the
\* other.
Offsets ==
  LET reach == (PADDLE_WIDTH + BALL_SIZE) \div 2 + 1
  IN  {(k * Scale) \div OffsetsPerUnit :
         k \in -(reach * OffsetsPerUnit)..(reach * OffsetsPerUnit)}

\* Ball.update alone, on a ball that lies on a paddle: either paddle where
\* main() puts it, the ball at every offset tried.
InitBounce ==
  /\ paddle1 = [Paddle(PADDLE_WIDTH, PADDLE_HEIGHT, 0, TOP_PADDLE_Y,
                       PADDLE_SPEED) EXCEPT !.changed = FALSE]
  /\ paddle2 = [AIPaddle(PADDLE_WIDTH, PADDLE_HEIGHT, 0, BOTTOM_PADDLE_Y,
                         AI_PADDLE_SPEED) EXCEPT !.changed = FALSE]
  /\ \E i \in 0..1, offset \in Offsets :
       ball = BallOnPaddle(paddles[i], offset)
  /\ scores = [i \in 0..1 |->
                 Sprite_update(
                   Scorekeeper(-(WIDTH * Scale) \div 2 + 50 * Scale,
                               IF i = 0 THEN 100 * Scale ELSE -100 * Scale))]
  /\ listening = TRUE
  /\ draws = [ball |-> 0, paddle1 |-> 0, paddle2 |-> 0, score1 |-> 0, score2 |-> 0]

\* Ball.update of a ball that touches a paddle, with any jitter.
BounceTick ==
  /\ hits(ball, paddle1) \/ hits(ball, paddle2)
  /\ \E j \in -BOUNCE_RAND_FACTOR..BOUNCE_RAND_FACTOR :
       ball' = Ball_update(ball, paddles, scores, 90, 0,
                           [i \in 0..1 |-> j]).ball
  /\ UNCHANGED <<paddle1, paddle2, scores, listening, draws>>

SpecBounce == InitBounce /\ [][BounceTick]_vars

\* ------------------------------------------------------------------- claims
\* A step is a loop iteration exactly when the ball changes: every iteration
\* moves the ball, and a key event leaves it alone.
IsTick == ball' # ball

\* The ball touches a side wall.
AtWall(b) == b.hitbox[0] <= LEFT \/ b.hitbox[1] >= RIGHT

\* The ball's bottom edge is at or below the bottom goal line.
PastBottomLine(b) == b.hitbox[2] <= BOTTOM + 10 * Scale

\* The goals check_collisions detects, for scores[0] and for scores[1].
BottomGoalSeen(b) == ~AtWall(b) /\ PastBottomLine(b)

TopGoalSeen(b) == ~AtWall(b) /\ ~PastBottomLine(b) /\ b.hitbox[3] >= TOP

GoalSeen(b) == BottomGoalSeen(b) \/ TopGoalSeen(b)

\* The ball has no bounces and is one step away from the origin: it was put
\* at (0, 0) and then moved once.
Served ==
  /\ ball.bounces = 0
  /\ ball.x = Quot(ball.shift * cos(ball.dir), TrigScale)
  /\ ball.y = Quot(ball.shift * sin(ball.dir), TrigScale)

PaddleLeftLimit == -(WIDTH * Scale) \div 2 + PADDLE_BOUNDARY * Scale

PaddleRightLimit == (WIDTH * Scale) \div 2 - PADDLE_BOUNDARY * Scale

\* C1: at every tick boundary both paddles' hitboxes lie within the arena
\* less the boundary margin: min_x >= -295 and max_x <= 295.
C1_PaddlesWithinMargin ==
  \A i \in 0..1 :
    /\ paddles[i].hitbox[0] >= PaddleLeftLimit
    /\ paddles[i].hitbox[1] <= PaddleRightLimit

\* C2: a tick that starts with the ball's bottom edge at or below BOTTOM+10,
\* wherever the ball is horizontally, credits scores[0] with exactly one
\* point, leaves scores[1] alone and serves the ball again from (0, 0) with
\* no bounces.
C2_BottomLineIsGoal ==
  [][(IsTick /\ PastBottomLine(ball))
       => /\ scores'[0].score = scores[0].score + 1
          /\ scores'[1].score = scores[1].score
          /\ Served']_vars

\* C3: the top goal mirrors the bottom one: a tick that starts with the
\* ball's top edge at or above TOP-10 credits scores[1] with exactly one
\* point and serves the ball again from (0, 0) with no bounces.
C3_TopLineIsGoal ==
  [][(IsTick /\ ball.hitbox[3] >= TOP - 10 * Scale)
       => /\ scores'[1].score = scores[1].score + 1
          /\ scores'[0].score = scores[0].score
          /\ Served']_vars

\* C4: a score never decreases; it changes only in a tick that detects a
\* goal for that scorekeeper, and then by exactly one; the two scores
\* together grow by at most one per tick.
C4_ScoresCountGoals ==
  [][/\ \A i \in 0..1 : scores'[i].score >= scores[i].score
     /\ scores'[0].score # scores[0].score
          => (BottomGoalSeen(ball) /\ scores'[0].score = scores[0].score + 1)
     /\ scores'[1].score # scores[1].score
          => (TopGoalSeen(ball) /\ scores'[1].score = scores[1].score + 1)
     /\ BottomGoalSeen(ball) /\ IsTick => scores'[0].score = scores[0].score + 1
     /\ TopGoalSeen(ball) /\ IsTick => scores'[1].score = scores[1].score + 1
     /\ scores'[0].score + scores'[1].score
          <= scores[0].score + scores[1].score + 1]_vars

\* Both scorekeepers have been credited.
C4_Witness == scores[0].score >= 1 /\ scores[1].score >= 1

\* C5: the bounce count never decreases in a tick without a goal, a tick
\* with a goal ends with the count at 0, and the count drops only in a tick
\* with a goal.
C5_BouncesResetOnGoal ==
  [][/\ (IsTick /\ GoalSeen(ball)) => ball'.bounces = 0
     /\ ~GoalSeen(ball) => ball'.bounces >= ball.bounces
     /\ ball'.bounces < ball.bounces => GoalSeen(ball)]_vars

\* A goal is about to be detected for a ball that has bounced.
C5_Witness ==
  /\ Playing(MaxIdleGoals, MaxIdleBounces)
  /\ ball.bounces > 0
  /\ GoalSeen(ball)

\* C6: at every tick boundary shift = base_speed + bounces * 0.25, and the
\* step made in a tick has the length given by the bounce count as the
\* tick's collision check leaves it (from the origin, after a goal).
C6_SpeedFollowsBounces ==
  /\ [](ball.shift = ball.base_speed + ball.bounces * BALL_SPEED_INCREASE)
  /\ [][IsTick =>
          LET from_x == IF GoalSeen(ball) THEN 0 ELSE ball.x
              from_y == IF GoalSeen(ball) THEN 0 ELSE ball.y
              s == ball.base_speed + ball'.bounces * BALL_SPEED_INCREASE
          IN  /\ ball'.x = from_x + Quot(s * cos(ball'.dir), TrigScale)
              /\ ball'.y = from_y + Quot(s * sin(ball'.dir), TrigScale)]_vars

\* The ball has bounced and moves faster than its base speed.
C6_Witness == ball.bounces > 0 /\ ball.shift > ball.base_speed

\* The direction after a side-wall reflection of the direction before it:
\* 180 - (dir mod 360), horizontal component reversed, vertical kept.
Reflected(before, after) ==
  /\ after = 180 * Scale - (before % (360 * Scale))
  /\ Sgn(cos(after)) = -Sgn(cos(before))
  /\ Sgn(sin(after)) = Sgn(sin(before))

\* C7 as stated: a tick that starts with the ball at a side wall moves the
\* ball in the reflected direction.
C7_WallReflects ==
  [][(IsTick /\ AtWall(ball)) => Reflected(ball.dir, ball'.dir)]_vars

\* C7 as amended: a tick that starts with the ball at a side wall and
\* touching no paddle moves the ball in the reflected direction.
C7_WallReflectsOffPaddles ==
  [][(IsTick /\ AtWall(ball) /\ ~hits(ball, paddle1) /\ ~hits(ball, paddle2))
       => Reflected(ball.dir, ball'.dir)]_vars

\* The ball is at a side wall, clear of both paddles, and a tick is due.
C7_Witness ==
  /\ Playing(MaxIdleGoals, MaxIdleBounces)
  /\ AtWall(ball)
  /\ ~hits(ball, paddle1)
  /\ ~hits(ball, paddle2)

\* C8 as stated: dir is always between 0 and 360 degrees.
C8_DirInCircle == 0 <= ball.dir /\ ball.dir <= 360 * Scale

\* C8 as amended: dir is always between -180 and 360 degrees.
C8_DirInRange == -180 * Scale <= ball.dir /\ ball.dir <= 360 * Scale

\* A side-wall reflection has left a negative direction.
C8_Witness == ball.dir < 0

\* A launch direction: in [25, 155] or in [205, 335] degrees.
Launchable(dir) ==
  \/ 25 * Scale <= dir /\ dir <= 155 * Scale
  \/ 205 * Scale <= dir /\ dir <= 335 * Scale

\* C9: the direction is a launch direction right after construction and at
\* the end of every tick that detects a goal.
C9_LaunchAwayFromHorizontal ==
  /\ Launchable(ball.dir)
  /\ [][(IsTick /\ GoalSeen(ball)) => Launchable(ball'.dir)]_vars

\* The ball has been served again after a goal.
C9_Witness == scores[0].score + scores[1].score > 0 /\ Served

Sees(p, b) == Abs(p.y - b.y) < AI_VISIBILITY_RANGE

\* The AI paddle is aligned with ball b:
\* abs(self.x - self.ball.x) < 1.5 * self.base_speed.
InDeadband(p, b) == 2 * Abs(p.x - b.x) < 3 * p.base_speed

\* C11: in a tick in which the AI paddle sees the ball (as the ball's update
\* of that tick left it) and is aligned with it, the AI paddle's x is the
\* same after its update as before, whatever its intent flags are.
C11_AlignedPaddleStays ==
  [][(IsTick /\ Sees(paddle2, ball') /\ InDeadband(paddle2, ball'))
       => paddle2'.x = paddle2.x]_vars

\* The AI paddle has just stood still, aligned with a ball it sees, with an
\* intent flag left set by an earlier tick.
C11_Witness ==
  /\ Sees(paddle2, ball)
  /\ paddle2.shift = 0
  /\ paddle2.moving_left \/ paddle2.moving_right

\* C12: the wander latch is set exactly while the ball is out of sight; the
\* first tick of a run of ticks without sight of the ball rolls a speed in
\* 0..base_speed and one of the two intents and sets the latch; every later
\* tick of the run keeps shift, moving_left and moving_right; a tick with
\* sight of the ball clears the latch.
C12_WanderRolledOnce ==
  /\ [](paddle2.rand_dir_set = ~paddle2.sees_ball)
  /\ [][IsTick =>
          /\ paddle2'.sees_ball = Sees(paddle2, ball')
          /\ Sees(paddle2, ball') => ~paddle2'.rand_dir_set
          /\ (~Sees(paddle2, ball') /\ paddle2.sees_ball)
               => /\ paddle2'.rand_dir_set
                  /\ \E speed \in 0..AI_PADDLE_SPEED :
                        paddle2'.shift = speed * Scale
                  /\ paddle2'.moving_left # paddle2'.moving_right
          /\ (~Sees(paddle2, ball') /\ ~paddle2.sees_ball)
               => /\ paddle2'.rand_dir_set
                  /\ paddle2'.shift = paddle2.shift
                  /\ paddle2'.moving_left = paddle2.moving_left
                  /\ paddle2'.moving_right = paddle2.moving_right]_vars

\* The AI paddle is wandering and the ball is too far out of sight to come
\* back into it in the tick that is due.
C12_Witness ==
  /\ Playing(MaxIdleGoals, MaxIdleBounces)
  /\ ~GoalSeen(ball)
  /\ ~paddle2.sees_ball
  /\ paddle2.rand_dir_set
  /\ Abs(paddle2.y - ball.y) >= AI_VISIBILITY_RANGE + 2 * BALL_SPEED * Scale

C14_GoalTouchesBallAndScore ==
  /\ [][\A i \in 0..1 : scores'[i].score >= scores[i].score]_vars
  /\ [][(IsTick /\ GoalSeen(ball)) =>
          LET credited == IF BottomGoalSeen(ball) THEN 0 ELSE 1
              other == 1 - credited
          IN  /\ scores'[other] = Sprite_update(scores[other])
              /\ scores'[credited] = Sprite_update(scored(scores[credited]))
              /\ paddle1' = Paddle_update(paddle1)
              /\ \E speed \in WanderSpeeds, toss \in 0..1 :
                    paddle2' = AIPaddle_update(paddle2, ball', speed, toss)
              /\ ball'.width = ball.width
              /\ ball'.height = ball.height
              /\ ball'.base_speed = ball.base_speed]_vars

\* A goal has just been scored with a point already on the other side and
\* the AI paddle away from where it started: both were kept.
C14_Witness ==
  /\ Served
  /\ draws.ball = 2
  /\ scores[0].score >= 1
  /\ scores[1].score >= 1
  /\ paddle2.x # 0

\* The direction a bounce off paddle p with jitter j gives ball b: 90 plus
\* the deflection off a paddle of the lower half, 270 minus it off one of
\* the upper half.
BounceDir(b, p, j) ==
  IF p.y < 0
  THEN 90 * Scale + deflection(b, p) + j * Scale
  ELSE 270 * Scale - deflection(b, p) + j * Scale

\* C15: a tick that starts with the ball's hitbox across a paddle's top
\* edge and within its horizontal span adds exactly one to the bounce count
\* and moves the ball in the bounce direction off that paddle, for some
\* jitter in -25..25, whether or not the ball is at a side wall as well.
C15_PaddleCheckedAfterWalls ==
  [][IsTick =>
       \A i \in 0..1 :
         hits(ball, paddles[i])
           => /\ ball'.bounces = ball.bounces + 1
              /\ \E j \in -BOUNCE_RAND_FACTOR..BOUNCE_RAND_FACTOR :
                    ball'.dir = BounceDir(ball, paddles[i], j)]_vars

\* The ball is at a side wall and on a paddle, and a tick is due.
C15_Witness ==
  /\ Playing(MaxIdleGoals, MaxIdleBounces)
  /\ AtWall(ball)
  /\ hits(ball, paddle1) \/ hits(ball, paddle2)

\* C16: in a tick a paddle's x changes by at most its speed (shift, as the
\* tick sets it): by at most 8 for the player paddle and, while it tracks
\* the ball, by at most 5 for the AI paddle.
C16_OneShiftPerTick ==
  [][IsTick =>
       /\ Abs(paddle1'.x - paddle1.x) <= paddle1'.shift
       /\ Abs(paddle2'.x - paddle2.x) <= paddle2'.shift]_vars

\* The side of the ball the AI paddle is on: 1 to its right and out of the
\* deadband, -1 to its left and out of it, 0 within it.
Side(p, b) == IF InDeadband(p, b) THEN 0 ELSE Sgn(p.x - b.x)

\* C17: tracking a ball held still, the AI paddle never goes in one tick
\* from strictly one side of the deadband to strictly the other, its x does
\* not change in a tick it starts within the deadband, and it ends up
\* within the deadband for good.
C17_NoOvershoot ==
  /\ [][Side(paddle2, ball) * Side(paddle2', ball') # -1]_vars
  /\ [][InDeadband(paddle2, ball) => paddle2'.x = paddle2.x]_vars
  /\ <>[](Side(paddle2, ball) = 0)

\* The paddle has come to rest within the deadband, more than one base
\* speed away from the ball's x.
C17_Witness ==
  /\ InDeadband(paddle2, ball)
  /\ paddle2.shift = 0
  /\ paddle2.rand_dir_set = FALSE
  /\ Abs(paddle2.x - ball.x) > paddle2.base_speed

\* dir is strictly between lo and hi degrees.
Between(dir, lo, hi) == lo * Scale < dir /\ dir < hi * Scale

\* A bounce off paddle p leaves direction dir pointing away from p's side.
AwayFrom(p, dir) ==
  IF p.y < 0 THEN Between(dir, 0, 180) ELSE Between(dir, 180, 360)

\* C18: a tick that starts with the ball on a paddle (across its top edge,
\* within its horizontal span) leaves dir strictly between 0 and 180
\* degrees off the bottom paddle and strictly between 180 and 360 off the
\* top paddle, for every lateral offset and every jitter in -25..25.
C18_BounceLeavesPaddleSide ==
  [][IsTick =>
       \A i \in 0..1 :
         hits(ball, paddles[i]) => AwayFrom(paddles[i], ball'.dir)]_vars

\* The ball has bounced off the end of the bottom paddle with the jitter
\* adding to the deflection: within 14 degrees of the horizontal.
C18_Witness ==
  /\ ball.bounces = 1
  /\ ball.y < 0
  /\ ball.dir <= 14 * Scale

\* C19: the AI paddle never has both intents set; a tick in which it sees
\* the ball and is aligned with it changes neither intent, a tick in which
\* it sees the ball and is not aligned sets the intent towards the ball and
\* clears the other, and a tick in which it does not see the ball ends with
\* exactly one intent set.
C19_OneIntentAtMost ==
  /\ [](~(paddle2.moving_left /\ paddle2.moving_right))
  /\ [][IsTick =>
          IF Sees(paddle2, ball')
          THEN IF InDeadband(paddle2, ball')
               THEN /\ paddle2'.moving_left = paddle2.moving_left
                    /\ paddle2'.moving_right = paddle2.moving_right
               ELSE /\ paddle2'.moving_left = (paddle2.x > ball'.x)
                    /\ paddle2'.moving_right = ~(paddle2.x > ball'.x)
          ELSE paddle2'.moving_left # paddle2'.moving_right]_vars

\* The AI paddle is heading left from the right of where it started: its
\* intent to move right was set and has been cleared.
C19_Witness ==
  /\ paddle2.moving_left
  /\ ~paddle2.moving_right
  /\ paddle2.x > 0

\* C20: at every tick boundary both paddles' hitboxes lie within the arena:
\* min_x >= LEFT and max_x <= RIGHT.
C20_PaddlesInsideArena ==
  \A i \in 0..1 :
    /\ paddles[i].hitbox[0] >= LEFT
    /\ paddles[i].hitbox[1] <= RIGHT

====
